---- MODULE Spec2Model ----
(***************************************************************************)
(* Model of the poise command framework: the edit tracker                  *)
(* (src/prefix/track_edits.rs) and the event handler of the framework      *)
(* (src/framework/mod.rs).                                                 *)
(*                                                                         *)
(* Rust's Option<T> is modelled as a set with at most one element:         *)
(* None is {} and Some(v) is {v}.                                          *)
(***************************************************************************)
EXTENDS Integers, Sequences, FiniteSets, TLC

VARIABLES
    cache,      \* EditTracker::cache : Vec<(Message, Message)>
    now,        \* the wall clock read by chrono::Utc::now()
    op,         \* the EditTracker operation applied last, with its arguments
    prev,       \* the cache as it was before that operation, when it was a
                \* purge or a process_message_update (<<>> otherwise)
    ret,        \* the value that operation returned
    nops,       \* the number of operations applied (UpdateSpec)
    user_data,          \* Framework::user_data : OnceCell<U>
    user_data_setup,    \* Framework::user_data_setup : Mutex<Option<Box<FnOnce>>>,
                        \* TRUE while the Option is Some
    bot_id,             \* Framework::bot_id : Mutex<Option<UserId>>
    tracking,           \* options.prefix_options.edit_tracker is Some
    pc,         \* per event task: its position in Framework::event
    ev,         \* per event task: the event it was spawned for
    res,        \* per event task: the result of the call it awaited last
    handled,    \* per event task: the error-handler futures it created
    listened,   \* per event task: the listener call it made, if any
    local,      \* per event task: the locals of the call it is in
                \* (send_prefix_reply: ctx, existing_response / new_response;
                \* check_required_permissions_and_owners_only: its arguments),
                \* dropped when the call returns
    calls,      \* per event task: the platform calls it awaited, in order
    setup_calls,\* the number of invocations of the user-data setup callback
    start_pc,   \* the position of Framework::start
    purge_task, \* the state of edit_track_cache_purge_task
    lock,       \* the RwLock around the EditTracker: who holds the write
                \* guard, if anyone
    platform    \* the platform's side of Message::edit: the message as the
                \* platform holds it after the last edit it applied, if any

trackerVars == <<cache, now, op, prev, ret, nops>>
\* the framework's state and the platform's, apart from the edit tracker's
\* lock
fwFields == <<user_data, user_data_setup, bot_id, tracking, setup_calls,
             start_pc, purge_task, platform>>
fwVars == <<user_data, user_data_setup, bot_id, tracking, setup_calls,
           start_pc, purge_task, platform, lock>>
taskVars == <<pc, ev, res, handled, listened, local, calls>>
vars == <<trackerVars, fwVars, taskVars>>

\* ---- bounds of the model ----
NumTasks == 2
MaxCache == 3
MaxTime == 2
MaxMsgId == 2
MaxOps == 3

\* EditTracker::max_duration, the argument of for_timespan
MaxDuration == 1

Times == 0..MaxTime
MsgIds == 1..MaxMsgId
Tasks == 1..NumTasks

\* ---- Option<T> ----
None == {}
Some(v) == {v}
IsSome(o) == o # {}
Unwrap(o) == CHOOSE v \in o : TRUE
UnwrapOr(o, d) == IF o = {} THEN d ELSE CHOOSE v \in o : TRUE

\* ---- serenity::Message, the fields the program reads or writes ----
Message(id, channel_id, guild_id, timestamp, edited_timestamp) ==
    [id |-> id, channel_id |-> channel_id, guild_id |-> guild_id,
     kind |-> 0, content |-> 0, tts |-> 0, pinned |-> 0,
     timestamp |-> timestamp, edited_timestamp |-> edited_timestamp,
     author |-> 0, mention_everyone |-> 0, mentions |-> 0,
     mention_roles |-> 0, attachments |-> 0, embeds |-> 0]

\* serenity::CustomMessage::new().build(): a message with default fields
DefaultMessage(t) == Message(0, 0, None, t, None)

\* the optional fields of serenity::MessageUpdateEvent
OptFields == {"kind", "content", "tts", "pinned", "timestamp", "edited_timestamp",
              "author", "mention_everyone", "mentions", "mention_roles",
              "attachments", "embeds"}

\* a MessageUpdateEvent whose optional fields in `present` are Some(v)
\* (Some(t) for the two timestamps) and whose other optional fields are None
MessageUpdateEvent(id, channel_id, guild_id, present, v, t) ==
    [id |-> id, channel_id |-> channel_id, guild_id |-> guild_id,
     kind |-> IF "kind" \in present THEN Some(v) ELSE None,
     content |-> IF "content" \in present THEN Some(v) ELSE None,
     tts |-> IF "tts" \in present THEN Some(v) ELSE None,
     pinned |-> IF "pinned" \in present THEN Some(v) ELSE None,
     timestamp |-> IF "timestamp" \in present THEN Some(t) ELSE None,
     edited_timestamp |-> IF "edited_timestamp" \in present THEN Some(t) ELSE None,
     author |-> IF "author" \in present THEN Some(v) ELSE None,
     mention_everyone |-> IF "mention_everyone" \in present THEN Some(v) ELSE None,
     mentions |-> IF "mentions" \in present THEN Some(v) ELSE None,
     mention_roles |-> IF "mention_roles" \in present THEN Some(v) ELSE None,
     attachments |-> IF "attachments" \in present THEN Some(v) ELSE None,
     embeds |-> IF "embeds" \in present THEN Some(v) ELSE None]

\* ---- track_edits.rs ----

\* update_message without the assignment of content
update_message_no_content(message, update) ==
    [message EXCEPT
        !.id = update.id,
        !.channel_id = update.channel_id,
        !.guild_id = update.guild_id,
        !.kind = UnwrapOr(update.kind, @),
        !.tts = UnwrapOr(update.tts, @),
        !.pinned = UnwrapOr(update.pinned, @),
        !.timestamp = UnwrapOr(update.timestamp, @),
        !.edited_timestamp = IF IsSome(update.edited_timestamp)
                             THEN Some(Unwrap(update.edited_timestamp)) ELSE @,
        !.author = UnwrapOr(update.author, @),
        !.mention_everyone = UnwrapOr(update.mention_everyone, @),
        !.mentions = UnwrapOr(update.mentions, @),
        !.mention_roles = UnwrapOr(update.mention_roles, @),
        !.attachments = UnwrapOr(update.attachments, @)]

\* fn update_message: id, channel_id and guild_id are assigned
\* unconditionally, eleven optional fields are assigned when they are Some,
\* and embeds is not assigned at all (the assignment is commented out)
update_message(message, update) ==
    [message EXCEPT
        !.id = update.id,
        !.channel_id = update.channel_id,
        !.guild_id = update.guild_id,
        !.kind = UnwrapOr(update.kind, @),
        !.content = UnwrapOr(update.content, @),
        !.tts = UnwrapOr(update.tts, @),
        !.pinned = UnwrapOr(update.pinned, @),
        !.timestamp = UnwrapOr(update.timestamp, @),
        !.edited_timestamp = IF IsSome(update.edited_timestamp)
                             THEN Some(Unwrap(update.edited_timestamp)) ELSE @,
        !.author = UnwrapOr(update.author, @),
        !.mention_everyone = UnwrapOr(update.mention_everyone, @),
        !.mentions = UnwrapOr(update.mentions, @),
        !.mention_roles = UnwrapOr(update.mention_roles, @),
        !.attachments = UnwrapOr(update.attachments, @)]

\* find returning the last entry that has the ID
find_last(c, id) ==
    IF \E i \in 1..Len(c) : c[i][1].id = id
    THEN CHOOSE i \in 1..Len(c) :
            c[i][1].id = id /\ \A j \in (i + 1)..Len(c) : c[j][1].id # id
    ELSE 0

\* .iter_mut().find(|(user_msg, _)| user_msg.id == id): the index of the
\* first entry whose trigger has the ID, 0 when there is none
RECURSIVE FindFrom(_, _, _)
FindFrom(c, id, i) ==
    IF i > Len(c) THEN 0
    ELSE IF c[i][1].id = id THEN i
    ELSE FindFrom(c, id, i + 1)

find(c, id) == FindFrom(c, id, 1)

\* process_message_update pushing the message it builds for an untracked ID
process_message_update_cache_insert(c, update) ==
    LET i == find(c, update.id) IN
    IF i # 0
    THEN [c EXCEPT ![i] = <<update_message(c[i][1], update), c[i][2]>>]
    ELSE Append(c, <<update_message(DefaultMessage(0), update), DefaultMessage(0)>>)

\* process_message_update updating every entry that has the ID
process_message_update_cache_all(c, update) ==
    [i \in 1..Len(c) |->
        IF c[i][1].id = update.id
        THEN <<update_message(c[i][1], update), c[i][2]>>
        ELSE c[i]]

\* EditTracker::process_message_update: the cache afterwards
process_message_update_cache(c, update) ==
    LET i == find(c, update.id) IN
    IF i # 0
    THEN [c EXCEPT ![i] = <<update_message(c[i][1], update), c[i][2]>>]
    ELSE c

\* EditTracker::process_message_update: the message returned
process_message_update_ret(c, update, t) ==
    LET i == find(c, update.id) IN
    IF i # 0
    THEN update_message(c[i][1], update)
    ELSE update_message(DefaultMessage(t), update)

\* the closure of purge's retain: TRUE when the entry is kept; t is the
\* value of chrono::Utc::now() read for this entry.
\* (Utc::now() - last_update).to_std() is Err for a negative duration
purge_keep(entry, t, max_duration) ==
    LET last_update == UnwrapOr(entry[1].edited_timestamp, entry[1].timestamp)
        diff == t - last_update
    IN IF diff >= 0 THEN diff < max_duration ELSE FALSE

\* the clock readings of one call of purge on n entries: the closure reads
\* Utc::now() once per entry, time passes while retain runs (from lo, as
\* far as hi) and the clock does not go back
Readings(n, lo, hi) ==
    {ts \in [1..n -> lo..hi] : \A i \in 1..n : \A j \in i..n : ts[i] <= ts[j]}

\* the clock after a purge that started at t and read ts
ClockAfter(ts, t) == IF Len(ts) = 0 THEN t ELSE ts[Len(ts)]

\* Vec::retain: visits the entries in order and keeps those the closure
\* accepts; ts[i] is the clock reading of the closure's i-th call
RECURSIVE RetainFrom(_, _, _, _)
RetainFrom(c, ts, max_duration, i) ==
    IF i > Len(c) THEN <<>>
    ELSE IF purge_keep(c[i], ts[i], max_duration)
         THEN <<c[i]>> \o RetainFrom(c, ts, max_duration, i + 1)
         ELSE RetainFrom(c, ts, max_duration, i + 1)

Retain(c, ts, max_duration) == RetainFrom(c, ts, max_duration, 1)

\* EditTracker::purge, with the clock readings ts of its closure
purge(c, ts) == Retain(c, ts, MaxDuration)

\* EditTracker::find_bot_response
find_bot_response(c, user_msg_id) ==
    LET i == find(c, user_msg_id) IN
    IF i = 0 THEN None ELSE Some(c[i][2])

\* EditTracker::register_response
register_response(c, user_msg, bot_response) == Append(c, <<user_msg, bot_response>>)

\* ---- framework/mod.rs: construction ----

\* Framework::new: the cell is empty, the setup callback is stored, the bot
\* ID is unknown; no event task has been spawned
FrameworkNew ==
    /\ user_data = None
    /\ user_data_setup = TRUE
    /\ bot_id = None
    /\ setup_calls = 0
    /\ pc = [t \in Tasks |-> "idle"]
    /\ ev = [t \in Tasks |-> [kind |-> "none"]]
    /\ res = [t \in Tasks |-> [tag |-> "none"]]
    /\ handled = [t \in Tasks |-> <<>>]
    /\ listened = [t \in Tasks |-> None]
    /\ local = [t \in Tasks |-> [tag |-> "none"]]
    /\ calls = [t \in Tasks |-> <<>>]
    /\ lock = None
    /\ platform = None

\* Framework::start has spawned the purge task and the client it built is
\* running: the state in which events are handled
Started ==
    /\ start_pc = "client_run"
    /\ purge_task = "sleeping"

\* ---- PurgeSpec: register_response, purge and the clock, applied in sequence ----

\* a bot response: a Message, of which only the identity is followed
Response(id) == Message(id, 0, None, 0, None)

PurgeInit ==
    /\ cache = <<>>
    /\ now = 0
    /\ op = [name |-> "init"]
    /\ prev = <<>>
    /\ ret = None
    /\ nops = 0
    /\ tracking = TRUE
    /\ FrameworkNew
    /\ Started

PurgeRegister ==
    /\ Len(cache) < MaxCache
    /\ \E ts \in Times, ets \in {None} \cup {Some(t) : t \in Times} :
        /\ ets # None => Unwrap(ets) >= ts
        /\ cache' = register_response(cache,
                        Message(1, 0, None, ts, ets), Response(10))
        /\ op' = [name |-> "register_response"]
    /\ prev' = <<>>
    /\ ret' = None
    /\ UNCHANGED <<now, nops, fwVars, taskVars>>

PurgePurge ==
    /\ \E ts \in Readings(Len(cache), now, MaxTime) :
        /\ cache' = purge(cache, ts)
        /\ now' = ClockAfter(ts, now)
    /\ op' = [name |-> "purge", started |-> now]
    /\ prev' = cache
    /\ ret' = None
    /\ UNCHANGED <<nops, fwVars, taskVars>>

PurgeTick ==
    /\ now < MaxTime
    /\ now' = now + 1
    /\ op' = [name |-> "tick"]
    /\ prev' = <<>>
    /\ ret' = None
    /\ UNCHANGED <<cache, nops, fwVars, taskVars>>

PurgeNext == PurgeRegister \/ PurgePurge \/ PurgeTick

PurgeSpec == PurgeInit /\ [][PurgeNext]_vars

\* the age the claim speaks of: now - (edited timestamp if any, else creation)
AgeOf(entry, t) ==
    t - (IF entry[1].edited_timestamp # None
         THEN Unwrap(entry[1].edited_timestamp) ELSE entry[1].timestamp)

Expired(entry, t) == AgeOf(entry, t) >= MaxDuration \/ AgeOf(entry, t) < 0

KeptIndices(c, t) == {i \in 1..Len(c) : ~Expired(c[i], t)}

\* the i-th smallest element of a finite set of integers
RECURSIVE Nth(_, _)
Nth(S, i) ==
    LET m == CHOOSE x \in S : \A y \in S : x <= y IN
    IF i = 1 THEN m ELSE Nth(S \ {m}, i - 1)

\* C9: purge removes exactly the entries whose age is >= max_duration or
\* whose age underflows, the age being taken from one `now` (any instant of
\* the call, between its start and its end); the others are kept unchanged
\* and in their order, and the cache is unchanged when no entry qualifies.
C9_PurgeExact ==
    op.name = "purge" =>
        \E t \in op.started..now :
            LET K == KeptIndices(prev, t) IN
            /\ Len(cache) = Cardinality(K)
            /\ \A j \in 1..Len(cache) : cache[j] = prev[Nth(K, j)]
            /\ (K = 1..Len(prev) => cache = prev)

\* ---- UpdateSpec: register_response and process_message_update in sequence ----

\* the sets of present optional fields the update events are drawn from:
\* none, each field alone, and all of them
PresentSets == {{}} \cup {{f} : f \in OptFields} \cup {OptFields}

GuildIds == {None, Some(1)}

UpdateInit ==
    /\ cache = <<>>
    /\ now = 0
    /\ op = [name |-> "init"]
    /\ prev = <<>>
    /\ ret = None
    /\ nops = 0
    /\ tracking = TRUE
    /\ FrameworkNew
    /\ Started

\* register_response(ctx.msg.clone(), new_response) for a trigger in a guild
\* or in a direct message; the response of the n-th operation has the ID
\* 10 * n + (ID of the trigger)
UpdateRegister ==
    /\ nops < MaxOps
    /\ Len(cache) < MaxCache
    /\ \E id \in MsgIds, g \in GuildIds :
        cache' = register_response(cache, Message(id, 7, g, 0, None),
                                   Response(10 * (nops + 1) + id))
    /\ op' = [name |-> "register_response"]
    /\ prev' = <<>>
    /\ ret' = None
    /\ nops' = nops + 1
    /\ UNCHANGED <<now, fwVars, taskVars>>

\* process_message_update(&update): the n-th operation carries the value n
\* in the fields that are present
UpdateProcess ==
    /\ nops < MaxOps
    /\ \E id \in MsgIds, g \in GuildIds, present \in PresentSets :
        LET u == MessageUpdateEvent(id, 7, g, present, nops + 1, nops + 1) IN
        /\ cache' = process_message_update_cache(cache, u)
        /\ ret' = Some(process_message_update_ret(cache, u, now))
        /\ op' = [name |-> "process_message_update", arg |-> u]
    /\ prev' = cache
    /\ nops' = nops + 1
    /\ UNCHANGED <<now, fwVars, taskVars>>

\* find_bot_response(user_msg_id)
UpdateFind ==
    /\ nops < MaxOps
    /\ \E id \in MsgIds :
        /\ ret' = find_bot_response(cache, id)
        /\ op' = [name |-> "find_bot_response", arg |-> id]
    /\ prev' = <<>>
    /\ nops' = nops + 1
    /\ UNCHANGED <<cache, now, fwVars, taskVars>>

UpdateNext == UpdateRegister \/ UpdateProcess \/ UpdateFind

UpdateSpec == UpdateInit /\ [][UpdateNext]_vars

\* the last operation was process_message_update on a tracked trigger
UpdatedTracked ==
    /\ op.name = "process_message_update"
    /\ \E i \in 1..Len(prev) : prev[i][1].id = op.arg.id

\* the index of the first entry of c whose trigger has the ID
FirstIndex(c, id) ==
    CHOOSE i \in 1..Len(c) : c[i][1].id = id /\ \A j \in 1..(i - 1) : c[j][1].id # id

\* the value a message field has when it was set from Some(..) of the update
Applied(f, u) == IF f = "edited_timestamp" THEN u[f] ELSE Unwrap(u[f])

\* C10 as stated: after process_message_update(u) on a tracked trigger the
\* stored trigger equals the returned copy, every field present in u has u's
\* value and every field absent from u (None) has its value from before.
C10_AllPresentAppliedAbsentKept ==
    UpdatedTracked =>
        LET u == op.arg
            i == FirstIndex(prev, u.id)
            before == prev[i][1]
            stored == cache[i][1]
        IN /\ ret = Some(stored)
           /\ stored.id = u.id
           /\ stored.channel_id = u.channel_id
           /\ stored.guild_id = (IF u.guild_id # None THEN u.guild_id ELSE before.guild_id)
           /\ \A f \in OptFields :
                stored[f] = (IF u[f] # None THEN Applied(f, u) ELSE before[f])

\* the fields update_message assigns when they are present
MergedFields == OptFields \ {"embeds"}

\* C10 (amended): the stored trigger equals the returned copy; id,
\* channel_id and guild_id are those of u (guild_id also when u has None);
\* every optional field other than embeds has u's value when present in u
\* and its value from before when absent; embeds keeps its value from before.
C10_MergedFieldsApplied ==
    UpdatedTracked =>
        LET u == op.arg
            i == FirstIndex(prev, u.id)
            before == prev[i][1]
            stored == cache[i][1]
        IN /\ ret = Some(stored)
           /\ stored.id = u.id
           /\ stored.channel_id = u.channel_id
           /\ stored.guild_id = u.guild_id
           /\ stored.embeds = before.embeds
           /\ \A f \in MergedFields :
                stored[f] = (IF u[f] # None THEN Applied(f, u) ELSE before[f])

\* an update of a tracked trigger that carries only the content, applied
\* to a trigger an earlier update had already changed
C10_Witness ==
    /\ UpdatedTracked
    /\ op.arg.content # None
    /\ op.arg.kind = None
    /\ LET i == FirstIndex(prev, op.arg.id) IN
        /\ prev[i][1].kind # 0
        /\ cache[i][1].content # prev[i][1].content
        /\ cache[i][1].kind = prev[i][1].kind

\* the last operation was process_message_update on an ID without an entry
UpdatedUntracked ==
    /\ op.name = "process_message_update"
    /\ \A i \in 1..Len(prev) : prev[i][1].id # op.arg.id

\* C12 as stated: process_message_update on a trigger ID without a cache
\* entry returns a default message with the update's fields applied, that
\* is the update's id, channel_id and guild_id and every optional field the
\* update carries (embeds among them), the other fields being those of the
\* default message; and it leaves the cache unchanged.
C12_UpdateFieldsApplied ==
    UpdatedUntracked =>
        LET u == op.arg
            made == Unwrap(ret)
            default == DefaultMessage(now)
        IN /\ cache = prev
           /\ ret # None
           /\ made.id = u.id
           /\ made.channel_id = u.channel_id
           /\ made.guild_id = u.guild_id
           /\ \A f \in OptFields :
                made[f] = (IF u[f] # None THEN Applied(f, u) ELSE default[f])

\* C12 (amended): process_message_update on a trigger ID without a cache
\* entry returns a default message with the update's id, channel_id and
\* guild_id and every optional field other than embeds that the update
\* carries; embeds is that of the default message whether or not the update
\* carries embeds; the cache is unchanged: no entry is added, removed or
\* modified.
C12_UntrackedUpdateSynthesized ==
    UpdatedUntracked =>
        LET u == op.arg
            made == Unwrap(ret)
            default == DefaultMessage(now)
        IN /\ cache = prev
           /\ ret # None
           /\ made.id = u.id
           /\ made.channel_id = u.channel_id
           /\ made.guild_id = u.guild_id
           /\ made.embeds = default.embeds
           /\ \A f \in MergedFields :
                made[f] = (IF u[f] # None THEN Applied(f, u) ELSE default[f])

\* an update carrying every optional field, embeds among them, for an ID
\* that has no entry, while the cache holds entries of another ID: the
\* message returned has the update's ID and content and the default embeds,
\* not the update's, and the cache is as before
C12_Witness ==
    /\ UpdatedUntracked
    /\ Len(prev) >= 2
    /\ op.arg.content # None
    /\ op.arg.embeds # None
    /\ Unwrap(ret).id = op.arg.id
    /\ Unwrap(ret).content = Unwrap(op.arg.content)
    /\ Unwrap(ret).embeds = DefaultMessage(now).embeds
    /\ Unwrap(ret).embeds # Unwrap(op.arg.embeds)
    /\ cache = prev

\* the number of the operation that inserted an entry (UpdateRegister)
InsertedAt(entry) == entry[2].id \div 10

\* the entries of c that have the trigger ID, and the one inserted first
EntriesOf(c, id) == {i \in 1..Len(c) : c[i][1].id = id}
FirstInserted(c, id) ==
    CHOOSE i \in EntriesOf(c, id) :
        \A j \in EntriesOf(c, id) : InsertedAt(c[i]) <= InsertedAt(c[j])

\* C19: when the cache holds several entries with the same trigger ID,
\* find_bot_response returns the response of the entry inserted first, and
\* process_message_update updates the trigger of the entry inserted first;
\* the later duplicates are neither returned nor modified.
C19_FirstInsertedWins ==
    /\ (op.name = "find_bot_response" /\ EntriesOf(cache, op.arg) # {}) =>
            ret = Some(cache[FirstInserted(cache, op.arg)][2])
    /\ (op.name = "find_bot_response" /\ EntriesOf(cache, op.arg) = {}) =>
            ret = None
    /\ UpdatedTracked =>
            LET i == FirstInserted(prev, op.arg.id) IN
            /\ Len(cache) = Len(prev)
            /\ ret = Some(cache[i][1])
            /\ cache[i][1] = update_message(prev[i][1], op.arg)
            /\ cache[i][2] = prev[i][2]
            /\ \A j \in 1..Len(prev) : j # i => cache[j] = prev[j]

\* an update for a trigger that has two entries changed the trigger of the
\* one inserted first and left the later one as it was
C19_Witness ==
    /\ UpdatedTracked
    /\ Cardinality(EntriesOf(prev, op.arg.id)) >= 2
    /\ LET i == FirstInserted(prev, op.arg.id) IN
        /\ cache[i][1] # prev[i][1]
        /\ \A j \in EntriesOf(prev, op.arg.id) \ {i} :
            /\ InsertedAt(prev[j]) > InsertedAt(prev[i])
            /\ cache[j] = prev[j]

\* ---- framework/mod.rs: Framework::event, one task per event ----

\* the user IDs a Ready event may carry, the values the setup callback may
\* produce, and the commands dispatch may resolve (with or without their
\* own on_error callback)
BotUserIds == {101, 102}
UserDatas == {"u1", "u2"}
Commands == {[name |-> "plain", on_error |-> FALSE, track_edits |-> TRUE],
             [name |-> "guarded", on_error |-> TRUE, track_edits |-> FALSE]}

\* Event::Message { new_message }: a guild message created at time ts
MessageEvent(id, ts) ==
    [kind |-> "Message", new_message |-> Message(id, 7, Some(1), ts, None)]

\* Event::MessageUpdate { event, .. }: an edit of the content at time ts
UpdateEvent(id, ts) ==
    [kind |-> "MessageUpdate",
     event |-> MessageUpdateEvent(id, 7, Some(1), {"content", "edited_timestamp"}, 1, ts)]

\* Event::MessageDelete { deleted_message_id, .. }
DeleteEvent(id) == [kind |-> "MessageDelete", deleted_message_id |-> id]

ReadyEvents == {[kind |-> "Ready", user_id |-> b] : b \in BotUserIds}
MessageEvents == {MessageEvent(1, 0)}
MessageUpdateEvents == {UpdateEvent(1, 0)}
MessageDeleteEvents == {DeleteEvent(1)}
InteractionEvents == {[kind |-> "InteractionCreate"]}
OtherEvents == {[kind |-> "Other"]}
Events == ReadyEvents \cup MessageEvents \cup MessageUpdateEvents
            \cup MessageDeleteEvents \cup InteractionEvents \cup OtherEvents

\* the arm of `match &event` an event starts in; `_ => {}` leads straight
\* to the listener call
Arm(kind) ==
    CASE kind = "Ready" -> "ready"
      [] kind = "Message" -> "message"
      [] kind = "MessageUpdate" -> "update"
      [] kind = "MessageDelete" -> "delete"
      [] kind = "InteractionCreate" -> "interaction"
      [] OTHER -> "listener"

\* an error-handler call: which handler, with which error context, and
\* whether the future it returned was awaited (an async callback runs only
\* when its future is polled)
Call(handler, ctx, err, awaited) ==
    [handler |-> handler, ctx |-> ctx, err |-> err, awaited |-> awaited]

\* the event handler is called for an event (EventWrapper spawns
\* self_2.event(ctx, event))
DeliverEvent(t, e) ==
    /\ pc[t] = "idle"
    /\ ev' = [ev EXCEPT ![t] = e]
    /\ pc' = [pc EXCEPT ![t] = Arm(e.kind)]
    /\ UNCHANGED <<trackerVars, fwVars, res, handled, listened, calls, local>>

Deliver(t) == \E e \in Events : DeliverEvent(t, e)

\* Event::Ready: *self.bot_id.lock().unwrap() = Some(data_about_bot.user.id)
ReadyStoreBotId(t) ==
    /\ pc[t] = "ready"
    /\ bot_id' = Some(ev[t].user_id)
    /\ pc' = [pc EXCEPT ![t] = "ready_take"]
    /\ UNCHANGED <<trackerVars, user_data, user_data_setup, tracking, platform, setup_calls,
                   start_pc, lock, purge_task,
                   ev, res, handled, listened, calls, local>>

\* the Ready arm reading user_data_setup without taking the callback out
ReadyTakeSetup_keep(t) ==
    /\ pc[t] = "ready_take"
    /\ IF user_data_setup
       THEN /\ setup_calls' = setup_calls + 1
            /\ pc' = [pc EXCEPT ![t] = "setup"]
       ELSE /\ pc' = [pc EXCEPT ![t] = "listener"]
            /\ UNCHANGED setup_calls
    /\ UNCHANGED <<trackerVars, user_data, user_data_setup, bot_id, tracking, platform,
                   start_pc, lock, purge_task,
                   ev, res, handled, listened, calls, local>>

\* Option::take on user_data_setup under its mutex; when it was Some the
\* callback is invoked, otherwise the duplicate Ready event is discarded
ReadyTakeSetup(t) ==
    /\ pc[t] = "ready_take"
    /\ IF user_data_setup
       THEN /\ user_data_setup' = FALSE
            /\ setup_calls' = setup_calls + 1
            /\ pc' = [pc EXCEPT ![t] = "setup"]
       ELSE /\ pc' = [pc EXCEPT ![t] = "listener"]
            /\ UNCHANGED <<user_data_setup, setup_calls>>
    /\ UNCHANGED <<trackerVars, user_data, bot_id, tracking, platform,
                   start_pc, lock, purge_task,
                   ev, res, handled, listened, calls, local>>

\* OnceCell::set: stores the value only when the cell is empty
OnceCellSet(cell, v) == IF cell = None THEN Some(v) ELSE cell

\* user_data_setup(..).await returns: Ok(user_data) is stored in the cell,
\* Err(e) goes to the framework-wide handler
SetupReturn(t) ==
    /\ pc[t] = "setup"
    /\ \/ \E v \in UserDatas :
            /\ user_data' = OnceCellSet(user_data, v)
            /\ res' = [res EXCEPT ![t] = [tag |-> "Ok"]]
            /\ pc' = [pc EXCEPT ![t] = "listener"]
       \/ /\ res' = [res EXCEPT ![t] = [tag |-> "Err", err |-> "setup failed"]]
          /\ pc' = [pc EXCEPT ![t] = "setup_error"]
          /\ UNCHANGED user_data
    /\ UNCHANGED <<trackerVars, user_data_setup, bot_id, tracking, platform, setup_calls,
                   start_pc, lock, purge_task,
                   ev, handled, listened, calls, local>>

\* (self.options.on_error)(e, ErrorContext::Setup).await
SetupError(t) ==
    /\ pc[t] = "setup_error"
    /\ handled' = [handled EXCEPT
                    ![t] = Append(@, Call("global", "Setup", res[t].err, TRUE))]
    /\ pc' = [pc EXCEPT ![t] = "listener"]
    /\ UNCHANGED <<trackerVars, fwVars, ev, res, listened, calls, local>>

\* what prefix::dispatch_message can return: Ok(()), Err(None), or
\* Err(Some((err, ctx))) with the command that failed in ctx
PrefixDispatchResults ==
    {[tag |-> "Ok"], [tag |-> "ErrNone"]}
        \cup {[tag |-> "Err", err |-> "command failed", command |-> c] : c \in Commands}

\* what slash::dispatch_interaction can return: Ok(()) or Err((e, error_ctx))
SlashDispatchResults ==
    {[tag |-> "Ok"]}
        \cup {[tag |-> "Err", err |-> "command failed", command |-> c] : c \in Commands}

\* prefix::dispatch_message(self, &ctx, new_message, false).await, followed
\* only by its result here (the command's replies are followed in CacheSpec)
DispatchMessage(t) ==
    /\ pc[t] = "message"
    /\ \E r \in PrefixDispatchResults : res' = [res EXCEPT ![t] = r]
    /\ pc' = [pc EXCEPT ![t] = "message_result"]
    /\ UNCHANGED <<trackerVars, fwVars, ev, handled, listened, calls, local>>

\* the Message arm calling the framework-wide handler after the command's own
MessageResult_both(t) ==
    /\ pc[t] = "message_result"
    /\ handled' = [handled EXCEPT ![t] =
            IF res[t].tag = "Err"
            THEN IF res[t].command.on_error
                 THEN Append(Append(@, Call("command", "Prefix", res[t].err, TRUE)),
                             Call("global", "Prefix", res[t].err, TRUE))
                 ELSE Append(@, Call("global", "Prefix", res[t].err, TRUE))
            ELSE @]
    /\ pc' = [pc EXCEPT ![t] = "listener"]
    /\ UNCHANGED <<trackerVars, fwVars, ev, res, listened, calls, local>>

\* Event::Message, on Err(Some((err, ctx))): the command's on_error when it
\* has one, else the framework-wide on_error with CommandErrorContext::Prefix
MessageResult(t) ==
    /\ pc[t] = "message_result"
    /\ handled' = [handled EXCEPT ![t] =
            IF res[t].tag = "Err"
            THEN IF res[t].command.on_error
                 THEN Append(@, Call("command", "Prefix", res[t].err, TRUE))
                 ELSE Append(@, Call("global", "Prefix", res[t].err, TRUE))
            ELSE @]
    /\ pc' = [pc EXCEPT ![t] = "listener"]
    /\ UNCHANGED <<trackerVars, fwVars, ev, res, listened, calls, local>>

\* Event::MessageUpdate: with an edit tracker,
\* msg = edit_tracker.write().process_message_update(event); without one
\* the arm does nothing
MessageUpdateProcess_stmt(t) ==
    /\ pc[t] = "update"
    /\ IF tracking
       THEN /\ cache' = process_message_update_cache(cache, ev[t].event)
            /\ res' = [res EXCEPT ![t] =
                        [tag |-> "msg",
                         msg |-> process_message_update_ret(cache, ev[t].event, now)]]
            /\ pc' = [pc EXCEPT ![t] = "update_dispatch"]
       ELSE /\ pc' = [pc EXCEPT ![t] = "listener"]
            /\ UNCHANGED <<cache, res>>
    /\ UNCHANGED <<now, op, prev, ret, nops, fwFields,
                   ev, handled, listened, calls, local>>

\* the MessageUpdate arm's statement with its lock: write() is granted, the
\* update is processed and the guard is dropped, in one step
MessageUpdateProcess(t) == MessageUpdateProcess_stmt(t) /\ UNCHANGED lock

\* prefix::dispatch_message(self, &ctx, &msg, true).await, followed only by
\* its result here
DispatchUpdate(t) ==
    /\ pc[t] = "update_dispatch"
    /\ \E r \in PrefixDispatchResults : res' = [res EXCEPT ![t] = r]
    /\ pc' = [pc EXCEPT ![t] = "update_result"]
    /\ UNCHANGED <<trackerVars, fwVars, ev, handled, listened, calls, local>>

\* Event::MessageUpdate, on Err(Some((err, ctx))): always the framework-wide
\* on_error with CommandErrorContext::Prefix; ctx.command.options.on_error
\* is not consulted
MessageUpdateResult(t) ==
    /\ pc[t] = "update_result"
    /\ handled' = [handled EXCEPT ![t] =
            IF res[t].tag = "Err"
            THEN Append(@, Call("global", "Prefix", res[t].err, TRUE))
            ELSE @]
    /\ pc' = [pc EXCEPT ![t] = "listener"]
    /\ UNCHANGED <<trackerVars, fwVars, ev, res, listened, calls, local>>

\* Event::MessageDelete: with an edit tracker,
\* bot_response = edit_tracker.write().find_bot_response(id).cloned()
MessageDeleteFind_stmt(t) ==
    /\ pc[t] = "delete"
    /\ IF tracking
       THEN LET r == find_bot_response(cache, ev[t].deleted_message_id) IN
            /\ res' = [res EXCEPT ![t] = [tag |-> "bot_response", value |-> r]]
            /\ pc' = [pc EXCEPT ![t] = IF r # None THEN "delete_response"
                                                   ELSE "listener"]
       ELSE /\ pc' = [pc EXCEPT ![t] = "listener"]
            /\ UNCHANGED res
    /\ UNCHANGED <<trackerVars, fwFields, ev, handled, listened, calls, local>>

\* the MessageDelete arm's lookup with its lock: write() is granted, the
\* response is looked up and cloned and the guard is dropped, in one step
MessageDeleteFind(t) == MessageDeleteFind_stmt(t) /\ UNCHANGED lock

\* slash::dispatch_interaction(..).await, followed only by its result
DispatchInteraction(t) ==
    /\ pc[t] = "interaction"
    /\ \E r \in SlashDispatchResults : res' = [res EXCEPT ![t] = r]
    /\ pc' = [pc EXCEPT ![t] = "interaction_result"]
    /\ UNCHANGED <<trackerVars, fwVars, ev, handled, listened, calls, local>>

\* Event::InteractionCreate, on Err((e, error_ctx)): the command's on_error
\* when it has one, else the framework-wide on_error with
\* CommandErrorContext::Slash
InteractionResult(t) ==
    /\ pc[t] = "interaction_result"
    /\ handled' = [handled EXCEPT ![t] =
            IF res[t].tag = "Err"
            THEN IF res[t].command.on_error
                 THEN Append(@, Call("command", "Slash", res[t].err, TRUE))
                 ELSE Append(@, Call("global", "Slash", res[t].err, TRUE))
            ELSE @]
    /\ pc' = [pc EXCEPT ![t] = "listener"]
    /\ UNCHANGED <<trackerVars, fwVars, ev, res, listened, calls, local>>

\* get_user_data: self.user_data.get() is None, so the task sleeps 100 ms
GetUserDataSleep(t) ==
    /\ pc[t] = "listener"
    /\ user_data = None
    /\ pc' = [pc EXCEPT ![t] = "listener_sleep"]
    /\ UNCHANGED <<trackerVars, fwVars, ev, res, handled, listened, calls, local>>

\* get_user_data: the sleep is over and the loop reads the cell again
GetUserDataWake(t) ==
    /\ pc[t] = "listener_sleep"
    /\ pc' = [pc EXCEPT ![t] = "listener"]
    /\ UNCHANGED <<trackerVars, fwVars, ev, res, handled, listened, calls, local>>

\* the listener call reading the cell without waiting for it to be set
ListenerCall_no_wait(t) ==
    /\ pc[t] = "listener"
    /\ \E r \in {"Ok", "Err"} :
        listened' = [listened EXCEPT ![t] = Some([data |-> user_data, result |-> r])]
    /\ pc' = [pc EXCEPT ![t] = "listener_result"]
    /\ UNCHANGED <<trackerVars, fwVars, ev, res, handled, local, calls>>

\* (self.options.listener)(&ctx, &event, self, self.get_user_data().await).await:
\* get_user_data found the cell set; the listener runs with the value and
\* returns Ok or Err
ListenerCall(t) ==
    /\ pc[t] = "listener"
    /\ user_data # None
    /\ \E r \in {"Ok", "Err"} :
        listened' = [listened EXCEPT ![t] = Some([data |-> user_data, result |-> r])]
    /\ pc' = [pc EXCEPT ![t] = "listener_result"]
    /\ UNCHANGED <<trackerVars, fwVars, ev, res, handled, local, calls>>

\* if let Err(e) = .. { (self.options.on_error)(e, ErrorContext::Listener(&event)); }
\* the future on_error returns is a statement of its own: it is dropped
\* without being awaited
ListenerResult(t) ==
    /\ pc[t] = "listener_result"
    /\ handled' = [handled EXCEPT ![t] =
            IF Unwrap(listened[t]).result = "Err"
            THEN Append(@, Call("global", "Listener", "listener failed", FALSE))
            ELSE @]
    /\ pc' = [pc EXCEPT ![t] = "done"]
    /\ UNCHANGED <<trackerVars, fwVars, ev, res, listened, calls, local>>

Init ==
    /\ cache = <<>>
    /\ now = 0
    /\ op = [name |-> "init"]
    /\ prev = <<>>
    /\ ret = None
    /\ nops = 0
    /\ tracking \in BOOLEAN
    /\ FrameworkNew
    /\ Started

Next ==
    \E t \in Tasks :
        \/ Deliver(t)
        \/ ReadyStoreBotId(t)
        \/ ReadyTakeSetup(t)
        \/ SetupReturn(t)
        \/ SetupError(t)
        \/ DispatchMessage(t)
        \/ MessageResult(t)
        \/ MessageUpdateProcess(t)
        \/ DispatchUpdate(t)
        \/ MessageUpdateResult(t)
        \/ MessageDeleteFind(t)
        \/ DispatchInteraction(t)
        \/ InteractionResult(t)
        \/ GetUserDataSleep(t)
        \/ GetUserDataWake(t)
        \/ ListenerCall(t)
        \/ ListenerResult(t)

Spec == Init /\ [][Next]_vars

\* the steps of event task t after its event was delivered
TaskStep(t) ==
    \/ ReadyStoreBotId(t)
    \/ ReadyTakeSetup(t)
    \/ SetupReturn(t)
    \/ SetupError(t)
    \/ DispatchMessage(t)
    \/ MessageResult(t)
    \/ MessageUpdateProcess(t)
    \/ DispatchUpdate(t)
    \/ MessageUpdateResult(t)
    \/ MessageDeleteFind(t)
    \/ DispatchInteraction(t)
    \/ InteractionResult(t)
    \/ GetUserDataSleep(t)
    \/ GetUserDataWake(t)
    \/ ListenerCall(t)
    \/ ListenerResult(t)

\* the runtime schedules every spawned task that can make progress, and
\* every awaited callback returns
FairSpec == Spec /\ \A t \in Tasks : WF_vars(TaskStep(t))

\* ---- claims about Framework::event ----

\* the handler calls of task t made for a command error
CommandCalls(t) == SelectSeq(handled[t], LAMBDA c : c.ctx \in {"Prefix", "Slash"})

\* task t is past the error routing of its match arm
PastArm(t) == pc[t] \in {"listener", "listener_sleep", "listener_result", "done"}

\* C3: whenever the listener returns an error, the framework-wide error
\* handler runs (its body is executed) with that error and a Listener context.
C3_ListenerErrorHandled ==
    \A t \in Tasks :
        (pc[t] = "done" /\ Unwrap(listened[t]).result = "Err") =>
            \E i \in 1..Len(handled[t]) :
                handled[t][i] = Call("global", "Listener", "listener failed", TRUE)

\* C4: a command error from a message-update event goes to the command's own
\* on_error when the command has one, and to the framework-wide handler only
\* when it has none.
C4_EditErrorToMostSpecific ==
    \A t \in Tasks :
        (ev[t].kind = "MessageUpdate" /\ PastArm(t) /\ res[t].tag = "Err") =>
            CommandCalls(t) =
                <<Call(IF res[t].command.on_error THEN "command" ELSE "global",
                       "Prefix", res[t].err, TRUE)>>

\* C5: a command error from a message-create event or an application-command
\* interaction reaches exactly one handler: the command's own on_error when it
\* has one, else the framework-wide handler with a Prefix (message) or Slash
\* (interaction) command context.
C5_ExactlyOneHandler ==
    \A t \in Tasks :
        (ev[t].kind \in {"Message", "InteractionCreate"} /\ PastArm(t)
            /\ res[t].tag = "Err") =>
            CommandCalls(t) =
                <<Call(IF res[t].command.on_error THEN "command" ELSE "global",
                       IF ev[t].kind = "Message" THEN "Prefix" ELSE "Slash",
                       res[t].err, TRUE)>>

\* a message command with its own on_error failed and only that callback
\* ran, while an interaction command without one failed and only the
\* framework-wide handler ran, tagged Slash
C5_Witness ==
    \E t1, t2 \in Tasks :
        /\ ev[t1].kind = "Message" /\ PastArm(t1)
        /\ res[t1].tag = "Err" /\ res[t1].command.on_error
        /\ handled[t1] = <<Call("command", "Prefix", "command failed", TRUE)>>
        /\ ev[t2].kind = "InteractionCreate" /\ PastArm(t2)
        /\ res[t2].tag = "Err" /\ ~res[t2].command.on_error
        /\ handled[t2] = <<Call("global", "Slash", "command failed", TRUE)>>

ReadyDelivered == \E r \in Tasks : ev[r].kind = "Ready"

\* C6: under fair scheduling, once a Ready event has been delivered the
\* listener is eventually invoked for every delivered event.
C6_ListenerEventuallyInvoked ==
    \A t \in Tasks : (pc[t] # "idle" /\ ReadyDelivered) ~> (listened[t] # None)

\* C7: the setup callback is invoked at most once, and only by a Ready event
\* that takes it out of user_data_setup; every Ready event stores its own bot
\* user ID in bot_id.
C7_SetupOnceBotIdRefreshed ==
    /\ [](setup_calls <= 1)
    /\ [][/\ setup_calls' # setup_calls => (user_data_setup /\ ~user_data_setup')
          /\ \A t \in Tasks :
                (pc[t] = "ready" /\ pc'[t] # "ready") => bot_id' = Some(ev[t].user_id)
         ]_vars

\* a second Ready event, with another bot user ID, was discarded for setup
\* purposes after the first one had taken the callback, and bot_id holds the
\* ID of the second
C7_Witness ==
    \E t1, t2 \in Tasks :
        /\ ev[t1].kind = "Ready" /\ ev[t2].kind = "Ready"
        /\ ev[t1].user_id # ev[t2].user_id
        /\ pc[t1] = "done"
        /\ PastArm(t2)
        /\ res[t2].tag = "none"
        /\ setup_calls = 1
        /\ bot_id = Some(ev[t2].user_id)

\* C8: no listener call observes an empty cell, every listener call receives
\* the value the cell holds, which is the same for all of them, and the cell
\* never changes once it is set.
C8_UserDataWriteOnce ==
    /\ [](\A t \in Tasks :
            listened[t] # None =>
                /\ Unwrap(listened[t]).data # None
                /\ Unwrap(listened[t]).data = user_data
                /\ \A t2 \in Tasks :
                    listened[t2] # None =>
                        Unwrap(listened[t2]).data = Unwrap(listened[t]).data)
    /\ [][user_data # None => user_data' = user_data]_vars

\* an event that arrived before Ready and the Ready event itself both had
\* their listener call, after the setup callback had filled the cell
C8_Witness ==
    \E t1, t2 \in Tasks :
        /\ ev[t1].kind = "Ready" /\ ev[t2].kind = "Message"
        /\ listened[t1] # None /\ listened[t2] # None
        /\ user_data # None
        /\ setup_calls = 1

\* ---- CacheSpec: the event tasks that use the edit tracker, their replies
\* through send_prefix_reply, and the purge cycle ----

\* lock_edit_tracker returning the guard whatever the command's track_edits
LockEditTracker_any(ctx) == tracking

\* lock_edit_tracker: None when ctx.command is Some and has track_edits
\* unset, else options.prefix_options.edit_tracker.as_ref().map(|t| t.write());
\* TRUE when a guard is returned
LockEditTracker(ctx) ==
    /\ (ctx.command # None => Unwrap(ctx.command).track_edits)
    /\ tracking

\* the arm a task returns to when dispatch_message returns
ResultPc(t) == IF ev[t].kind = "Message" THEN "message_result" ELSE "update_result"

\* the message a fresh reply of task t creates, and a response after task t
\* edited it
NewResponse(t, msg) == Response(10 * msg.id + t)
Edited(response, t) == [response EXCEPT !.content = 100 + t]

\* a platform call awaited by a task: which call, on which message (the
\* trigger for send_message, the response for edit and delete), and
\* whether it succeeded
PlatformCall(call, id, ok) == [call |-> call, id |-> id, ok |-> ok]

\* what dispatch_message returns when a reply failed with a serenity error:
\* the error with the command's context, or Err(None) when the reply was
\* made outside any command
ReplyFailed(ctx, err) ==
    IF ctx.command = None
    THEN [tag |-> "ErrNone"]
    ELSE [tag |-> "Err", err |-> err, command |-> Unwrap(ctx.command)]

\* a message event arrives: the creation of a message (once per message ID)
\* or an edit, stamped with the current time, or a deletion
CacheDeliver(t) ==
    \E id \in MsgIds :
        \/ /\ \A u \in Tasks : ev[u].kind = "Message" => ev[u].new_message.id # id
           /\ DeliverEvent(t, MessageEvent(id, now))
        \/ DeliverEvent(t, UpdateEvent(id, now))
        \/ DeliverEvent(t, DeleteEvent(id))

\* dispatch_message resolves a command and runs it; the command replies
\* through send_prefix_reply with a PrefixContext holding the dispatched
\* message and the command
InvokeCommand(t) ==
    /\ pc[t] \in {"message", "update_dispatch"}
    /\ \E c \in Commands :
        local' = [local EXCEPT ![t] =
                    [tag |-> "reply",
                     ctx |-> [msg |-> IF ev[t].kind = "Message"
                                      THEN ev[t].new_message ELSE res[t].msg,
                              command |-> Some(c)],
                     response |-> None]]
    /\ pc' = [pc EXCEPT ![t] = "reply_find"]
    /\ UNCHANGED <<trackerVars, fwVars, ev, res, handled, listened, calls>>

\* dispatch_message runs a callback outside any command, which replies
\* through send_prefix_reply with a PrefixContext whose command is None
InvokeWithoutCommand(t) ==
    /\ pc[t] \in {"message", "update_dispatch"}
    /\ local' = [local EXCEPT ![t] =
                    [tag |-> "reply",
                     ctx |-> [msg |-> IF ev[t].kind = "Message"
                                      THEN ev[t].new_message ELSE res[t].msg,
                              command |-> None],
                     response |-> None]]
    /\ pc' = [pc EXCEPT ![t] = "reply_find"]
    /\ UNCHANGED <<trackerVars, fwVars, ev, res, handled, listened, calls>>

\* dispatch_message finds no command in the message and returns Err(None)
DispatchNoCommand(t) ==
    /\ pc[t] \in {"message", "update_dispatch"}
    /\ res' = [res EXCEPT ![t] = [tag |-> "ErrNone"]]
    /\ pc' = [pc EXCEPT ![t] = ResultPc(t)]
    /\ UNCHANGED <<trackerVars, fwVars, ev, handled, listened, calls, local>>

\* send_prefix_reply: existing_response =
\* lock_edit_tracker().as_mut().and_then(|t| t.find_bot_response(ctx.msg.id)).cloned();
\* the guard is dropped at the end of the statement
ReplyFind_stmt(t) ==
    /\ pc[t] = "reply_find"
    /\ LET existing == IF LockEditTracker(local[t].ctx)
                       THEN find_bot_response(cache, local[t].ctx.msg.id)
                       ELSE None
       IN /\ local' = [local EXCEPT ![t].response = existing]
          /\ pc' = [pc EXCEPT ![t] = IF existing # None THEN "reply_edit"
                                                        ELSE "reply_send"]
    /\ UNCHANGED <<trackerVars, fwFields, ev, res, handled, listened, calls>>

\* the lookup with its lock: granted, used and dropped in one step
ReplyFind(t) == ReplyFind_stmt(t) /\ UNCHANGED lock

\* response.edit(ctx.discord, ..).await?: the platform edits the response
\* and the local copy takes the new contents, or the call fails and
\* send_prefix_reply, and with it the command, returns the error
ReplyEdit(t) ==
    /\ pc[t] = "reply_edit"
    /\ \/ /\ local' = [local EXCEPT ![t].response = Some(Edited(Unwrap(@), t))]
          /\ platform' = Some(Edited(Unwrap(local[t].response), t))
          /\ calls' = [calls EXCEPT ![t] =
                Append(@, PlatformCall("edit", Unwrap(local[t].response).id, TRUE))]
          /\ pc' = [pc EXCEPT ![t] = "reply_update"]
          /\ UNCHANGED res
       \/ /\ res' = [res EXCEPT ![t] = ReplyFailed(local[t].ctx, "edit failed")]
          /\ calls' = [calls EXCEPT ![t] =
                Append(@, PlatformCall("edit", Unwrap(local[t].response).id, FALSE))]
          /\ pc' = [pc EXCEPT ![t] = ResultPc(t)]
          /\ local' = [local EXCEPT ![t] = [tag |-> "none"]]
          /\ UNCHANGED platform
    /\ UNCHANGED <<trackerVars, user_data, user_data_setup, bot_id, tracking,
                   setup_calls, start_pc, purge_task, lock, ev, handled, listened>>

\* the edit path registering the edited response when the entry is gone
ReplyUpdateEntry_recreate(t) ==
    /\ pc[t] = "reply_update"
    /\ LET i == find(cache, local[t].ctx.msg.id) IN
       IF LockEditTracker(local[t].ctx)
       THEN /\ cache' = IF i # 0
                        THEN [cache EXCEPT ![i] = <<@[1], Unwrap(local[t].response)>>]
                        ELSE register_response(cache, local[t].ctx.msg,
                                               Unwrap(local[t].response))
            /\ op' = [name |-> "find_bot_response", arg |-> local[t].ctx.msg.id]
            /\ ret' = find_bot_response(cache, local[t].ctx.msg.id)
       ELSE UNCHANGED <<cache, op, ret>>
    /\ res' = [res EXCEPT ![t] = [tag |-> "Ok"]]
    /\ pc' = [pc EXCEPT ![t] = ResultPc(t)]
    /\ local' = [local EXCEPT ![t] = [tag |-> "none"]]
    /\ UNCHANGED <<now, prev, nops, fwVars, ev, handled, listened, calls>>

\* after the edit: if let Some(response_entry) = lock_edit_tracker()
\* .as_mut().and_then(|t| t.find_bot_response(ctx.msg.id))
\* { *response_entry = response; }; then Ok(())
ReplyUpdateEntry_stmt(t) ==
    /\ pc[t] = "reply_update"
    /\ LET i == find(cache, local[t].ctx.msg.id) IN
       IF LockEditTracker(local[t].ctx)
       THEN /\ cache' = IF i # 0
                        THEN [cache EXCEPT ![i] = <<@[1], Unwrap(local[t].response)>>]
                        ELSE cache
            /\ op' = [name |-> "find_bot_response", arg |-> local[t].ctx.msg.id]
            /\ ret' = find_bot_response(cache, local[t].ctx.msg.id)
       ELSE UNCHANGED <<cache, op, ret>>
    /\ res' = [res EXCEPT ![t] = [tag |-> "Ok"]]
    /\ pc' = [pc EXCEPT ![t] = ResultPc(t)]
    /\ local' = [local EXCEPT ![t] = [tag |-> "none"]]
    /\ UNCHANGED <<now, prev, nops, fwFields, ev, handled, listened, calls>>

\* the overwrite with its lock: granted, used and dropped in one step
ReplyUpdateEntry(t) == ReplyUpdateEntry_stmt(t) /\ UNCHANGED lock

\* send_prefix_reply going on to the registration after a failed send
ReplySend_ignore(t) ==
    /\ pc[t] = "reply_send"
    /\ \E ok \in BOOLEAN :
        calls' = [calls EXCEPT ![t] =
                Append(@, PlatformCall("send_message", local[t].ctx.msg.id, ok))]
    /\ local' = [local EXCEPT ![t].response = Some(NewResponse(t, local[t].ctx.msg))]
    /\ pc' = [pc EXCEPT ![t] = "reply_register"]
    /\ UNCHANGED <<trackerVars, fwVars, ev, res, handled, listened>>

\* ctx.msg.channel_id.send_message(ctx.discord, ..).await?: the platform
\* creates the response, or the call fails and the error is returned
ReplySend(t) ==
    /\ pc[t] = "reply_send"
    /\ \/ /\ local' = [local EXCEPT
                        ![t].response = Some(NewResponse(t, local[t].ctx.msg))]
          /\ calls' = [calls EXCEPT ![t] =
                Append(@, PlatformCall("send_message", local[t].ctx.msg.id, TRUE))]
          /\ pc' = [pc EXCEPT ![t] = "reply_register"]
          /\ UNCHANGED res
       \/ /\ res' = [res EXCEPT ![t] = ReplyFailed(local[t].ctx, "send failed")]
          /\ calls' = [calls EXCEPT ![t] =
                Append(@, PlatformCall("send_message", local[t].ctx.msg.id, FALSE))]
          /\ pc' = [pc EXCEPT ![t] = ResultPc(t)]
          /\ local' = [local EXCEPT ![t] = [tag |-> "none"]]
    /\ UNCHANGED <<trackerVars, fwVars, ev, handled, listened>>

\* after the send: if let Some(track_edits) = &mut lock_edit_tracker()
\* { track_edits.register_response(ctx.msg.clone(), new_response) }; then Ok(())
ReplyRegister_stmt(t) ==
    /\ pc[t] = "reply_register"
    /\ IF LockEditTracker(local[t].ctx)
       THEN cache' = register_response(cache, local[t].ctx.msg,
                                       Unwrap(local[t].response))
       ELSE UNCHANGED cache
    /\ res' = [res EXCEPT ![t] = [tag |-> "Ok"]]
    /\ pc' = [pc EXCEPT ![t] = ResultPc(t)]
    /\ local' = [local EXCEPT ![t] = [tag |-> "none"]]
    /\ UNCHANGED <<now, op, prev, ret, nops, fwFields, ev, handled, listened, calls>>

\* the registration with its lock: granted, used and dropped in one step
ReplyRegister(t) == ReplyRegister_stmt(t) /\ UNCHANGED lock

\* the MessageDelete arm passing a failure of the delete call to the
\* framework-wide handler
MessageDeleteResponse_propagate(t) ==
    /\ pc[t] = "delete_response"
    /\ \E ok \in BOOLEAN :
        /\ res' = [res EXCEPT ![t] =
                [tag |-> IF ok THEN "deleted" ELSE "delete failed: warning printed",
                 value |-> res[t].value]]
        /\ calls' = [calls EXCEPT ![t] =
                Append(@, PlatformCall("delete", Unwrap(res[t].value).id, ok))]
        /\ handled' = [handled EXCEPT ![t] =
                IF ok THEN @ ELSE Append(@, Call("global", "Prefix", "delete failed", TRUE))]
    /\ pc' = [pc EXCEPT ![t] = "listener"]
    /\ UNCHANGED <<trackerVars, fwVars, ev, listened, local>>

\* Event::MessageDelete: bot_response.delete(&ctx).await; an error is
\* printed as a warning and nothing else is done with it or with the cache
MessageDeleteResponse(t) ==
    /\ pc[t] = "delete_response"
    /\ \E ok \in BOOLEAN :
        /\ res' = [res EXCEPT ![t] =
                [tag |-> IF ok THEN "deleted" ELSE "delete failed: warning printed",
                 value |-> res[t].value]]
        /\ calls' = [calls EXCEPT ![t] =
                Append(@, PlatformCall("delete", Unwrap(res[t].value).id, ok))]
    /\ pc' = [pc EXCEPT ![t] = "listener"]
    /\ UNCHANGED <<trackerVars, fwVars, ev, handled, listened, local>>

\* one cycle of edit_track_cache_purge_task: edit_tracker.write().purge()
PurgeCycle ==
    /\ tracking
    /\ \E ts \in Readings(Len(cache), now, MaxTime) :
        /\ cache' = purge(cache, ts)
        /\ now' = ClockAfter(ts, now)
    /\ UNCHANGED <<op, prev, ret, nops, fwVars, taskVars>>

\* time passes (the purge task sleeps 60 s between cycles)
CacheTick ==
    /\ now < MaxTime
    /\ now' = now + 1
    /\ UNCHANGED <<cache, op, prev, ret, nops, fwVars, taskVars>>

CacheInit ==
    /\ cache = <<>>
    /\ now = 0
    /\ op = [name |-> "init"]
    /\ prev = <<>>
    /\ ret = None
    /\ nops = 0
    /\ tracking \in BOOLEAN
    /\ FrameworkNew
    /\ Started

CacheNext ==
    \/ \E t \in Tasks :
        \/ CacheDeliver(t)
        \/ InvokeCommand(t)
        \/ DispatchNoCommand(t)
        \/ ReplyFind(t)
        \/ ReplyEdit(t)
        \/ ReplyUpdateEntry(t)
        \/ ReplySend(t)
        \/ ReplyRegister(t)
        \/ MessageResult(t)
        \/ MessageUpdateProcess(t)
        \/ MessageUpdateResult(t)
        \/ MessageDeleteFind(t)
        \/ MessageDeleteResponse(t)
    \/ PurgeCycle
    \/ CacheTick

CacheSpec == CacheInit /\ [][CacheNext]_vars

\* C1: at most one cache entry has a given trigger message ID.
C1_OneEntryPerTrigger ==
    \A i, j \in 1..Len(cache) : cache[i][1].id = cache[j][1].id => i = j

\* C2: when the delete handler finishes for a trigger that had a cache
\* entry, find_bot_response for the deleted trigger ID returns nothing.
C2_DeleteRemovesEntry ==
    [][\A t \in Tasks :
        (pc[t] = "delete_response" /\ pc'[t] = "listener") =>
            find_bot_response(cache', ev[t].deleted_message_id) = None]_vars

\* ---- HandlerSpec: one event task followed step by step, against the cache
\* operations of the other event tasks and of the purge task ----

\* the task that is followed; the other tasks take part through the
\* critical sections they run on the edit tracker
HandlerTasks == {1}
OtherTasks == Tasks \ HandlerTasks

\* the other task whose critical sections are followed (the others differ
\* from it only in the identity of the responses they send)
OtherTask == CHOOSE u \in OtherTasks : \A v \in OtherTasks : u <= v

\* the followed task's event: for the message the task is about (the other
\* tasks act on every message), created or edited now, or deleted
HandlerDeliver(t) ==
    \E e \in {MessageEvent(1, now), UpdateEvent(1, now), DeleteEvent(1)} :
        DeliverEvent(t, e)

\* The other tasks run at most MaxOps - 1 critical sections in all (nops
\* counts them).

\* another task's reply registers the response it sent:
\* track_edits.register_response(ctx.msg.clone(), new_response)
OtherRegister ==
    /\ tracking
    /\ start_pc = "client_run"
    /\ now <= MaxTime
    /\ nops < MaxOps - 1
    /\ Len(cache) < MaxCache
    /\ \E id \in MsgIds :
        LET msg == Message(id, 7, Some(1), now, None) IN
        cache' = register_response(cache, msg, NewResponse(OtherTask, msg))
    /\ nops' = nops + 1
    /\ UNCHANGED <<now, op, prev, ret, fwVars, taskVars>>

\* another task's MessageUpdate arm on a tracked trigger:
\* edit_tracker.write().process_message_update(event)
OtherUpdate ==
    /\ tracking
    /\ start_pc = "client_run"
    /\ now <= MaxTime
    /\ nops < MaxOps - 1
    /\ \E id \in MsgIds :
        /\ find(cache, id) # 0
        /\ cache' = process_message_update_cache(cache, UpdateEvent(id, now).event)
    /\ nops' = nops + 1
    /\ UNCHANGED <<now, op, prev, ret, fwVars, taskVars>>

\* another task's reply for a tracked trigger begins (its MessageUpdate arm
\* has returned the cached trigger, see OtherUpdate): the lookup finds the
\* response and clones it, and the task goes on to response.edit(..).await.
\* Its edit and its overwrite of the entry are ReplyEdit and
\* ReplyUpdateEntry: the overwrite stores the clone taken here
OtherFind ==
    /\ tracking
    /\ start_pc = "client_run"
    /\ now <= MaxTime
    /\ nops < MaxOps - 1
    /\ pc[OtherTask] = "idle"
    /\ \E id \in MsgIds, c \in {c \in Commands : c.track_edits} :
        /\ find(cache, id) # 0
        /\ local' = [local EXCEPT ![OtherTask] =
                    [tag |-> "reply",
                     ctx |-> [msg |-> cache[find(cache, id)][1], command |-> Some(c)],
                     response |-> find_bot_response(cache, id)]]
    /\ pc' = [pc EXCEPT ![OtherTask] = "reply_edit"]
    /\ nops' = nops + 1
    /\ UNCHANGED <<cache, now, op, prev, ret, fwVars, ev, res, handled, listened, calls>>

HandlerInit ==
    /\ cache = <<>>
    /\ now = 0
    /\ op = [name |-> "init"]
    /\ prev = <<>>
    /\ ret = None
    /\ nops = 0
    /\ tracking \in BOOLEAN
    /\ FrameworkNew
    /\ Started

HandlerNext ==
    \/ \E t \in HandlerTasks :
        \/ HandlerDeliver(t)
        \/ InvokeCommand(t)
        \/ InvokeWithoutCommand(t)
        \/ DispatchNoCommand(t)
        \/ ReplyFind(t)
        \/ ReplyEdit(t)
        \/ ReplyUpdateEntry(t)
        \/ ReplySend(t)
        \/ ReplyRegister(t)
        \/ MessageResult(t)
        \/ MessageUpdateProcess(t)
        \/ MessageUpdateResult(t)
        \/ MessageDeleteFind(t)
        \/ MessageDeleteResponse(t)
    \/ OtherRegister
    \/ OtherUpdate
    \/ OtherFind
    \/ ReplyEdit(OtherTask)
    \/ ReplyUpdateEntry(OtherTask)
    \/ PurgeCycle
    \/ CacheTick

HandlerSpec == HandlerInit /\ [][HandlerNext]_vars

\* edit tracking is active for an invocation: an edit tracker is configured
\* and the resolved command, if any, has track_edits set
TrackingActive(ctx) == tracking /\ \A c \in ctx.command : c.track_edits

\* task t leaves the step of send_prefix_reply it is at
Leaves(t, step) == pc[t] = step /\ pc'[t] # step

\* C11: send_prefix_reply decides by tracking state. With tracking active and
\* a response cached for the trigger ID it edits that response and sends no
\* message; with tracking active and no response cached it sends a message
\* and afterwards the cache holds an entry with the trigger ID whose
\* response is the message sent; with tracking not active it sends a message
\* and leaves the cache as it is. Each call makes one platform call.
C11_ReplyDecision ==
    [][\A t \in Tasks :
        /\ Leaves(t, "reply_find") =>
            LET ctx == local[t].ctx
                cached == find_bot_response(cache, ctx.msg.id)
            IN /\ cache' = cache
               /\ calls'[t] = calls[t]
               /\ IF TrackingActive(ctx) /\ cached # None
                  THEN pc'[t] = "reply_edit" /\ local'[t].response = cached
                  ELSE pc'[t] = "reply_send"
        /\ Leaves(t, "reply_edit") =>
            /\ cache' = cache
            /\ \E ok \in BOOLEAN :
                /\ calls'[t] = Append(calls[t],
                        PlatformCall("edit", Unwrap(local[t].response).id, ok))
                /\ pc'[t] = IF ok THEN "reply_update" ELSE ResultPc(t)
        /\ Leaves(t, "reply_update") =>
            /\ calls'[t] = calls[t]
            /\ pc'[t] = ResultPc(t)
            /\ ~TrackingActive(local[t].ctx) => cache' = cache
        /\ Leaves(t, "reply_send") =>
            /\ cache' = cache
            /\ \E ok \in BOOLEAN :
                /\ calls'[t] = Append(calls[t],
                        PlatformCall("send_message", local[t].ctx.msg.id, ok))
                /\ pc'[t] = IF ok THEN "reply_register" ELSE ResultPc(t)
        /\ Leaves(t, "reply_register") =>
            /\ calls'[t] = calls[t]
            /\ pc'[t] = ResultPc(t)
            /\ IF TrackingActive(local[t].ctx)
               THEN \E i \in 1..Len(cache') :
                        /\ cache'[i][1].id = local[t].ctx.msg.id
                        /\ cache'[i][2] = Unwrap(local[t].response)
               ELSE cache' = cache
      ]_vars

\* a reply for a trigger whose response another task had registered: the
\* call edited that response, sent nothing and returned Ok, and the entry
\* holds the edited response
C11_Witness ==
    \E t \in HandlerTasks :
        LET theirs == NewResponse(OtherTask, ev[t].event) IN
        /\ ev[t].kind = "MessageUpdate"
        /\ pc[t] = "update_result"
        /\ res[t].tag = "Ok"
        /\ calls[t] = <<PlatformCall("edit", theirs.id, TRUE)>>
        /\ find_bot_response(cache, ev[t].event.id) = Some(Edited(theirs, t))

\* C13: process_message_update on a tracked trigger changes only the trigger
\* half of the first entry with that ID: the response half of that entry,
\* every other entry, and the number and order of the entries stay as they
\* were; and when the routing that follows finds no command, the arm
\* changes nothing further, makes no platform call and calls no handler.
C13_UpdateChangesOnlyTrigger ==
    [][\A t \in Tasks :
        /\ (Leaves(t, "update") /\ tracking
                /\ \E i \in 1..Len(cache) : cache[i][1].id = ev[t].event.id) =>
            LET i == FirstIndex(cache, ev[t].event.id) IN
            /\ Len(cache') = Len(cache)
            /\ \A j \in 1..Len(cache) : j # i => cache'[j] = cache[j]
            /\ cache'[i][2] = cache[i][2]
            /\ cache'[i][1] = res'[t].msg
            /\ cache'[i][1].id = ev[t].event.id
            /\ cache'[i][1].content = Unwrap(ev[t].event.content)
        /\ (Leaves(t, "update_dispatch") /\ pc'[t] = "update_result"
                /\ res'[t].tag = "ErrNone") =>
            /\ cache' = cache
            /\ calls'[t] = calls[t]
        /\ (Leaves(t, "update_result") /\ res[t].tag = "ErrNone") =>
            /\ cache' = cache
            /\ calls'[t] = calls[t]
            /\ handled'[t] = handled[t]
            /\ pc'[t] = "listener"
      ]_vars

\* an edit of a tracked trigger in which the routing found no command: the
\* arm is over without a platform call or a handler call, the first entry
\* of the trigger carries the edit and the response another task registered,
\* and a second entry of the same trigger is as it was registered
C13_Witness ==
    \E t \in HandlerTasks :
        /\ ev[t].kind = "MessageUpdate"
        /\ pc[t] = "listener"
        /\ res[t].tag = "ErrNone"
        /\ calls[t] = <<>>
        /\ handled[t] = <<>>
        /\ Len(cache) = 2
        /\ cache[1][1].id = ev[t].event.id
        /\ cache[1][1].edited_timestamp = ev[t].event.edited_timestamp
        /\ cache[1][1].content = Unwrap(ev[t].event.content)
        /\ cache[1][2] = NewResponse(OtherTask, cache[1][1])
        /\ cache[2][1].id = ev[t].event.id
        /\ cache[2][1].edited_timestamp = None

\* C20: on the edit path of send_prefix_reply, after the platform edit the
\* cached response is overwritten with the edited response only if an entry
\* for the trigger exists at that moment (the first one, whose trigger half
\* stays as it is); if the entry was purged while the edit was in flight
\* nothing is re-created. Neither step of the edit path changes the number
\* of cache entries.
C20_EditPathNeverRecreates ==
    [][\A t \in Tasks :
        /\ Leaves(t, "reply_edit") => cache' = cache
        /\ Leaves(t, "reply_update") =>
            LET id == local[t].ctx.msg.id
                response == Unwrap(local[t].response)
            IN /\ Len(cache') = Len(cache)
               /\ IF \E i \in 1..Len(cache) : cache[i][1].id = id
                  THEN LET i == FirstIndex(cache, id) IN
                       /\ cache'[i] = <<cache[i][1], response>>
                       /\ \A j \in 1..Len(cache) : j # i => cache'[j] = cache[j]
                  ELSE cache' = cache
      ]_vars

\* a reply edited the response it had found, and the lookup after the
\* edit found no entry for the trigger (the purge task had removed it in
\* between): the call returned Ok and the cache is still without one
C20_Witness ==
    \E t \in HandlerTasks :
        /\ pc[t] \in {"message_result", "update_result"}
        /\ res[t].tag = "Ok"
        /\ Len(calls[t]) = 1
        /\ calls[t][1].call = "edit"
        /\ calls[t][1].ok
        /\ op.name = "find_bot_response"
        /\ ret = None
        /\ find_bot_response(cache, op.arg) = None

\* ---- DeleteSpec: a MessageDelete event followed through its arm and the
\* listener call, against the other tasks and the purge task ----

\* a Ready event arrives at another task
ReadyDeliver(u) == \E e \in ReadyEvents : DeliverEvent(u, e)

DeleteDeliver(t) == \E id \in MsgIds : DeliverEvent(t, DeleteEvent(id))

DeleteNext ==
    \/ \E t \in HandlerTasks :
        \/ DeleteDeliver(t)
        \/ MessageDeleteFind(t)
        \/ MessageDeleteResponse(t)
        \/ GetUserDataSleep(t)
        \/ GetUserDataWake(t)
        \/ ListenerCall(t)
        \/ ListenerResult(t)
    \/ \E u \in {OtherTask} :
        \/ ReadyDeliver(u)
        \/ ReadyStoreBotId(u)
        \/ ReadyTakeSetup(u)
        \/ SetupReturn(u)
        \/ SetupError(u)
    \/ OtherRegister
    \/ OtherUpdate
    \/ PurgeCycle
    \/ CacheTick

DeleteSpec == HandlerInit /\ [][DeleteNext]_vars

\* C14: when the platform call that deletes the tracked response fails, the
\* failure is only logged: the step calls no error handler and goes on to
\* the listener call exactly as after a successful deletion, and the only
\* handler call a delete event ever leads to is the one for an error the
\* listener itself returned.
C14_DeleteFailureOnlyLogged ==
    [][\A t \in Tasks :
        /\ Leaves(t, "delete_response") =>
            /\ \E ok \in BOOLEAN :
                calls'[t] = Append(calls[t],
                    PlatformCall("delete", Unwrap(res[t].value).id, ok))
            /\ handled'[t] = handled[t]
            /\ pc'[t] = "listener"
        /\ (ev[t].kind = "MessageDelete" /\ handled'[t] # handled[t]) =>
            /\ pc[t] = "listener_result"
            /\ Unwrap(listened[t]).result = "Err"
            /\ handled'[t] = Append(handled[t],
                    Call("global", "Listener", "listener failed", FALSE))
      ]_vars

\* the deletion of a tracked response failed, no handler was called, and
\* the listener was called for the event and returned Ok
C14_Witness ==
    \E t \in HandlerTasks :
        /\ ev[t].kind = "MessageDelete"
        /\ Len(calls[t]) = 1
        /\ calls[t][1].call = "delete"
        /\ ~calls[t][1].ok
        /\ pc[t] = "done"
        /\ listened[t] # None
        /\ Unwrap(listened[t]).result = "Ok"
        /\ handled[t] = <<>>

\* ---- PermSpec: check_required_permissions_and_owners_only and
\* check_permissions, one call per task ----

\* serenity::Permissions is a set of bit flags: is_empty() is = {} and
\* a.contains(b) is b \subseteq a
PermissionBits == {"SEND_MESSAGES", "MANAGE_MESSAGES"}
Permissions == SUBSET PermissionBits

\* the authors of invocations and the values of options.owners
UserIds == {1, 2}
OwnerSets == {{}, {1}}

\* a lookup or fetch made by the check, with its outcome
Lookup(what, outcome) == [what |-> what, outcome |-> outcome]

\* the outcomes of ctx.discord().cache.guild(guild_id), of
\* guild.channels.get(&ctx.channel_id()), of guild.members.get(&author.id),
\* of http.get_member(..).await and of guild.user_permissions_in(..)
GuildOutcomes == {"Some", "None"}
ChannelOutcomes == {"Some(Channel::Guild)", "Some(other)", "None"}
MemberOutcomes == {"Some", "None"}
FetchOutcomes == {"Ok", "Err"}
ComputeOutcomes == {[tag |-> "Err"]} \cup {[tag |-> "Ok", perms |-> p] : p \in Permissions}

\* the check returns a bool
Returned(t, b) ==
    /\ res' = [res EXCEPT ![t] = [tag |-> "bool", value |-> b]]
    /\ pc' = [pc EXCEPT ![t] = "check_done"]

\* check_required_permissions_and_owners_only(ctx, required_permissions,
\* owners_only) is called for an invocation
CheckCall(t) ==
    /\ pc[t] = "idle"
    /\ \E author \in UserIds, owners \in OwnerSets, owners_only \in BOOLEAN,
          required \in Permissions, guild_id \in GuildIds :
        local' = [local EXCEPT ![t] =
                    [tag |-> "check", author |-> author, owners |-> owners,
                     owners_only |-> owners_only,
                     required_permissions |-> required,
                     guild_id |-> guild_id, lookups |-> <<>>]]
    /\ pc' = [pc EXCEPT ![t] = "check_owners"]
    /\ UNCHANGED <<trackerVars, fwVars, ev, res, handled, listened, calls>>

\* the owners-only test left out
CheckOwnersOnly_skip(t) ==
    /\ pc[t] = "check_owners"
    /\ pc' = [pc EXCEPT ![t] = "check_permissions"]
    /\ UNCHANGED <<trackerVars, fwVars, ev, res, handled, listened, calls, local>>

\* if owners_only && !owners.contains(&ctx.author().id) { return false; }
CheckOwnersOnly(t) ==
    /\ pc[t] = "check_owners"
    /\ IF local[t].owners_only /\ local[t].author \notin local[t].owners
       THEN Returned(t, FALSE)
       ELSE pc' = [pc EXCEPT ![t] = "check_permissions"] /\ UNCHANGED res
    /\ UNCHANGED <<trackerVars, fwVars, ev, handled, listened, calls, local>>

\* check_permissions up to the member lookup: required_permissions
\* empty or no guild returns true; a guild missing from the cache, a
\* channel missing from the guild or not a guild channel returns false; a
\* member in the cache goes on to the computation, one missing from it to
\* the fetch
CheckPermissionsLookups(t) ==
    /\ pc[t] = "check_permissions"
    /\ IF local[t].required_permissions = {} \/ local[t].guild_id = None
       THEN Returned(t, TRUE) /\ UNCHANGED local
       ELSE \E g \in GuildOutcomes :
            IF g = "None"
            THEN /\ Returned(t, FALSE)
                 /\ local' = [local EXCEPT ![t].lookups = Append(@, Lookup("guild", g))]
            ELSE \E c \in ChannelOutcomes :
                 IF c # "Some(Channel::Guild)"
                 THEN /\ Returned(t, FALSE)
                      /\ local' = [local EXCEPT ![t].lookups =
                            @ \o <<Lookup("guild", g), Lookup("channel", c)>>]
                 ELSE \E m \in MemberOutcomes :
                      /\ local' = [local EXCEPT ![t].lookups =
                            @ \o <<Lookup("guild", g), Lookup("channel", c),
                                   Lookup("member", m)>>]
                      /\ pc' = [pc EXCEPT ![t] = IF m = "Some" THEN "check_compute"
                                                               ELSE "check_fetch"]
                      /\ UNCHANGED res
    /\ UNCHANGED <<trackerVars, fwVars, ev, handled, listened, calls>>

\* http.get_member(guild_id.0, author.id.0).await: Err(_) returns false
CheckFetchMember(t) ==
    /\ pc[t] = "check_fetch"
    /\ \E f \in FetchOutcomes :
        /\ local' = [local EXCEPT ![t].lookups = Append(@, Lookup("get_member", f))]
        /\ calls' = [calls EXCEPT ![t] =
                Append(@, PlatformCall("get_member", local[t].author, f = "Ok"))]
        /\ IF f = "Ok"
           THEN pc' = [pc EXCEPT ![t] = "check_compute"] /\ UNCHANGED res
           ELSE Returned(t, FALSE)
    /\ UNCHANGED <<trackerVars, fwVars, ev, handled, listened>>

\* the final match with any common bit accepted in place of contains
CheckCompute_any(t) ==
    /\ pc[t] = "check_compute"
    /\ \E r \in ComputeOutcomes :
        /\ local' = [local EXCEPT ![t].lookups =
                Append(@, Lookup("user_permissions_in", r))]
        /\ Returned(t, IF r.tag = "Ok"
                       THEN r.perms \cap local[t].required_permissions # {}
                       ELSE FALSE)
    /\ UNCHANGED <<trackerVars, fwVars, ev, handled, listened, calls>>

\* match guild.user_permissions_in(channel, &member) {
\*     Ok(perms) => perms.contains(required_permissions), Err(_) => false }
CheckCompute(t) ==
    /\ pc[t] = "check_compute"
    /\ \E r \in ComputeOutcomes :
        /\ local' = [local EXCEPT ![t].lookups =
                Append(@, Lookup("user_permissions_in", r))]
        /\ Returned(t, IF r.tag = "Ok"
                       THEN local[t].required_permissions \subseteq r.perms
                       ELSE FALSE)
    /\ UNCHANGED <<trackerVars, fwVars, ev, handled, listened, calls>>

PermInit ==
    /\ cache = <<>>
    /\ now = 0
    /\ op = [name |-> "init"]
    /\ prev = <<>>
    /\ ret = None
    /\ nops = 0
    /\ tracking = TRUE
    /\ FrameworkNew
    /\ Started

\* the calls share no state, so one of them is followed
PermNext ==
    \E t \in HandlerTasks :
        \/ CheckCall(t)
        \/ CheckOwnersOnly(t)
        \/ CheckPermissionsLookups(t)
        \/ CheckFetchMember(t)
        \/ CheckCompute(t)

PermSpec == PermInit /\ [][PermNext]_vars

\* the outcome of the lookup `what` of a call, "not made" when the call
\* did not make it
OutcomeOf(l, what) ==
    IF \E i \in 1..Len(l.lookups) : l.lookups[i].what = what
    THEN (CHOOSE x \in {l.lookups[i] : i \in 1..Len(l.lookups)} : x.what = what).outcome
    ELSE "not made"

\* the table of the permission check, read top to bottom
PermissionTable(l) ==
    IF l.required_permissions = {} THEN TRUE
    ELSE IF l.guild_id = None THEN TRUE
    ELSE IF OutcomeOf(l, "guild") = "None" THEN FALSE
    ELSE IF OutcomeOf(l, "channel") \in {"None", "Some(other)"} THEN FALSE
    ELSE IF OutcomeOf(l, "member") = "None" /\ OutcomeOf(l, "get_member") = "Err"
         THEN FALSE
    ELSE IF OutcomeOf(l, "user_permissions_in").tag = "Err" THEN FALSE
    ELSE \A bit \in l.required_permissions :
            bit \in OutcomeOf(l, "user_permissions_in").perms

\* the call was not denied by the owners-only test
PastOwnersOnly(l) == ~(l.owners_only /\ l.author \notin l.owners)

\* C15: the permission check returns a boolean, never an error, following
\* the table: required permissions empty -> allow; else not in a guild ->
\* allow; else guild not in cache -> deny; else channel missing or not a
\* guild channel -> deny; else member not in cache and fetch failed -> deny;
\* else computation failed -> deny; otherwise allow exactly when the
\* effective permissions contain every required bit.
C15_PermissionTable ==
    \A t \in Tasks :
        (pc[t] = "check_done" /\ PastOwnersOnly(local[t])) =>
            /\ res[t].tag = "bool"
            /\ res[t].value = PermissionTable(local[t])

\* one call was denied because the effective permissions lacked a required
\* bit while holding another one, after the member had to be fetched
C15_Witness ==
    \E t \in Tasks :
        /\ pc[t] = "check_done"
        /\ PastOwnersOnly(local[t])
        /\ local[t].required_permissions = PermissionBits
        /\ OutcomeOf(local[t], "get_member") = "Ok"
        /\ OutcomeOf(local[t], "user_permissions_in") =
                [tag |-> "Ok", perms |-> {"SEND_MESSAGES"}]
        /\ res[t] = [tag |-> "bool", value |-> FALSE]

\* C16: with owners_only set, an author outside the owner set is denied
\* whatever the required permissions, the guild context and the permission
\* bits, before and without any guild, channel or member lookup or platform
\* fetch; an author in the owner set still gets the result of the
\* permission check.
C16_OwnersOnlyFirst ==
    \A t \in Tasks :
        /\ (pc[t] \in {"check_permissions", "check_fetch", "check_compute", "check_done"}
                /\ local[t].owners_only /\ local[t].author \notin local[t].owners) =>
            /\ pc[t] = "check_done"
            /\ res[t] = [tag |-> "bool", value |-> FALSE]
            /\ local[t].lookups = <<>>
            /\ calls[t] = <<>>
        /\ (pc[t] = "check_done"
                /\ local[t].owners_only /\ local[t].author \in local[t].owners) =>
            res[t].value = PermissionTable(local[t])

\* an owners-only command without required permissions, invoked in a
\* guild, was denied to an author outside a non-empty owner set, without a
\* lookup or a fetch
C16_Witness ==
    \E t \in Tasks :
        /\ pc[t] = "check_done"
        /\ local[t].owners_only /\ local[t].author \notin local[t].owners
        /\ local[t].owners # {}
        /\ local[t].required_permissions = {}
        /\ local[t].guild_id # None
        /\ res[t] = [tag |-> "bool", value |-> FALSE]
        /\ local[t].lookups = <<>>
        /\ calls[t] = <<>>

\* ---- RunSpec: Framework::start, the purge task it spawns, and the
\* critical sections of the event tasks while the client runs ----

\* Framework::new has returned and start has not been called
NotStarted ==
    /\ start_pc = "new"
    /\ purge_task = "none"

\* start: the purge task is spawned (tokio::spawn), then the client is built
StartSpawn ==
    /\ start_pc = "new"
    /\ purge_task' = "ready"
    /\ start_pc' = "client_build"
    /\ UNCHANGED <<trackerVars, user_data, user_data_setup, bot_id, tracking, platform,
                   setup_calls, lock, taskVars>>

\* builder.application_id(..).event_handler(..).await?: the client is
\* built, or start returns the error
ClientBuild ==
    /\ start_pc = "client_build"
    /\ \E ok \in BOOLEAN :
        start_pc' = IF ok THEN "client_run" ELSE "returned_err"
    /\ UNCHANGED <<trackerVars, user_data, user_data_setup, bot_id, tracking, platform,
                   setup_calls, purge_task, lock, taskVars>>

\* .start().await?: the client's run ends. On Ok start goes on to
\* edit_track_cache_purge_task.abort() and returns Ok(()); on Err the `?`
\* returns the error, and the JoinHandle is dropped without abort.
\* abort() cancels the task at an await: a task that is not being polled
\* never runs again, one inside a turn of its loop (on another worker
\* thread) goes on to the sleep and is cancelled there
ClientRunReturns ==
    /\ start_pc = "client_run"
    /\ \E ok \in BOOLEAN :
        IF ok
        THEN /\ start_pc' = "returned_ok"
             /\ purge_task' = IF purge_task = "running" THEN "cancelling"
                                                         ELSE "aborted"
        ELSE start_pc' = "returned_err" /\ UNCHANGED purge_task
    /\ UNCHANGED <<trackerVars, user_data, user_data_setup, bot_id, tracking, platform,
                   setup_calls, lock, taskVars>>

\* the runtime polls the purge task: it enters a turn of its loop
PurgeTaskPoll ==
    /\ purge_task = "ready"
    /\ purge_task' = "running"
    /\ UNCHANGED <<trackerVars, user_data, user_data_setup, bot_id, tracking, platform,
                   setup_calls, start_pc, lock, taskVars>>

\* the purge task returning after its first cycle
PurgeTaskCycle_once ==
    /\ purge_task \in {"running", "cancelling"}
    /\ IF tracking
       THEN \E ts \in Readings(Len(cache), now, MaxTime + MaxDuration) :
                /\ cache' = purge(cache, ts)
                /\ now' = ClockAfter(ts, now)
       ELSE UNCHANGED <<cache, now>>
    /\ purge_task' = "finished"
    /\ UNCHANGED <<op, prev, ret, nops, user_data, user_data_setup, bot_id,
                   tracking, platform, setup_calls, start_pc, lock, taskVars>>

\* one turn of the purge task's loop up to its await: with an edit
\* tracker, edit_tracker.write().purge(); then the task sleeps, or, when
\* abort() was called during the turn, is cancelled at the sleep
PurgeTaskCycle ==
    /\ purge_task \in {"running", "cancelling"}
    /\ IF tracking
       THEN \E ts \in Readings(Len(cache), now, MaxTime + MaxDuration) :
                /\ cache' = purge(cache, ts)
                /\ now' = ClockAfter(ts, now)
       ELSE UNCHANGED <<cache, now>>
    /\ purge_task' = IF purge_task = "running" THEN "sleeping" ELSE "aborted"
    /\ UNCHANGED <<op, prev, ret, nops, user_data, user_data_setup, bot_id,
                   tracking, platform, setup_calls, start_pc, lock, taskVars>>

\* tokio::time::sleep(Duration::from_secs(60)).await is over
PurgeTaskWake ==
    /\ purge_task = "sleeping"
    /\ purge_task' = "ready"
    /\ UNCHANGED <<trackerVars, user_data, user_data_setup, bot_id, tracking, platform,
                   setup_calls, start_pc, lock, taskVars>>

\* time passes; it goes on for max_duration after the last event the
\* other tasks may handle
RunTick ==
    /\ now < MaxTime + MaxDuration
    /\ now' = now + 1
    /\ UNCHANGED <<cache, op, prev, ret, nops, fwVars, taskVars>>

RunInit ==
    /\ cache = <<>>
    /\ now = 0
    /\ op = [name |-> "init"]
    /\ prev = <<>>
    /\ ret = None
    /\ nops = 0
    /\ tracking \in BOOLEAN
    /\ FrameworkNew
    /\ NotStarted

RunNext ==
    \/ StartSpawn
    \/ ClientBuild
    \/ ClientRunReturns
    \/ PurgeTaskPoll
    \/ PurgeTaskCycle
    \/ PurgeTaskWake
    \/ RunTick
    \/ OtherRegister
    \/ OtherUpdate
    \/ OtherFind
    \/ ReplyEdit(OtherTask)
    \/ ReplyUpdateEntry(OtherTask)

RunSpec == RunInit /\ [][RunNext]_vars

\* the runtime schedules the purge task whenever it can run, its sleep
\* ends, and time advances
FairRunSpec ==
    /\ RunSpec
    /\ WF_vars(PurgeTaskPoll)
    /\ WF_vars(PurgeTaskCycle)
    /\ WF_vars(PurgeTaskWake)
    /\ WF_vars(RunTick)

\* C17: whenever Framework::start has returned, with Ok or with an error of
\* the client's construction or run, the purge task has been cancelled.
C17_PurgeTaskCancelledOnReturn ==
    start_pc \in {"returned_ok", "returned_err"} => purge_task = "aborted"

\* the time of the last update of a trigger: purge measures the age from it
LastUpdate(m) == UnwrapOr(m.edited_timestamp, m.timestamp)

\* the cache holds an entry of trigger `id` whose last update was at `ts`
TrackedSince(id, ts) ==
    \E i \in 1..Len(cache) : cache[i][1].id = id /\ LastUpdate(cache[i][1]) = ts

\* C18: while the framework runs with an edit tracker, the purge task keeps
\* running purge cycles, so under fair scheduling and advancing time every
\* cache entry whose trigger gets no further update is eventually removed,
\* whatever critical sections the event tasks run in between.
C18_EntriesEventuallyPurged ==
    \A id \in MsgIds, ts \in Times :
        (tracking /\ TrackedSince(id, ts))
            ~> (~TrackedSince(id, ts) \/ start_pc # "client_run")

\* while the client runs, the other tasks have run their critical sections
\* (the first of them a register_response), time has advanced by
\* max_duration or more, and the purge task has emptied the cache and sleeps
C18_Witness ==
    /\ tracking
    /\ start_pc = "client_run"
    /\ purge_task = "sleeping"
    /\ nops + 1 = MaxOps
    /\ now >= MaxDuration
    /\ cache = <<>>

\* ---- LockSpec: the edit tracker's RwLock followed guard by guard. Every
\* acquisition is a step of its own (write() blocks until no guard is out);
\* the statement that uses the guard drops it at its end ----

\* who holds the write guard: an event task or the purge task
LockHolder(t) == <<"event", t>>
PurgeHolder == <<"purge", 0>>

\* the statements of an event task that call write() on the edit tracker
LockingPcs == {"update", "delete", "reply_find", "reply_update", "reply_register"}

\* task t is at a statement that takes the lock: the MessageUpdate and
\* MessageDelete arms when an edit tracker is configured, and the three
\* statements of send_prefix_reply when lock_edit_tracker returns a guard
TakesLock(t) ==
    CASE pc[t] \in {"update", "delete"} -> tracking
      [] pc[t] \in {"reply_find", "reply_update", "reply_register"} ->
            LockEditTracker(local[t].ctx)
      [] OTHER -> FALSE

\* a message event arrives at task t: the creation of message 1 (once), an
\* edit of it or its deletion
LockDeliver(t) ==
    \/ /\ \A u \in Tasks : ev[u].kind # "Message"
       /\ DeliverEvent(t, MessageEvent(1, now))
    \/ DeliverEvent(t, UpdateEvent(1, now))
    \/ DeliverEvent(t, DeleteEvent(1))

\* edit_tracker.write() of an event task returns: no guard is out, and the
\* task now holds the write guard
LockAcquire(t) ==
    /\ TakesLock(t)
    /\ lock = None
    /\ lock' = Some(LockHolder(t))
    /\ UNCHANGED <<trackerVars, fwFields, taskVars>>

\* a guard bound to a variable that lives on after the statement
Guarded_held(t) ==
    IF TakesLock(t) THEN lock = Some(LockHolder(t)) /\ UNCHANGED lock
                    ELSE UNCHANGED lock

\* the guard of a statement: a temporary (or the binding of an if let
\* without an await in its body), held while the statement runs and dropped
\* at its end; a statement that takes no lock leaves the lock alone
Guarded(t) ==
    IF TakesLock(t) THEN lock = Some(LockHolder(t)) /\ lock' = None
                    ELSE UNCHANGED lock

LockMessageUpdateProcess(t) == Guarded(t) /\ MessageUpdateProcess_stmt(t)
LockMessageDeleteFind(t) == Guarded(t) /\ MessageDeleteFind_stmt(t)
LockReplyFind(t) == Guarded(t) /\ ReplyFind_stmt(t)
LockReplyUpdateEntry(t) == Guarded(t) /\ ReplyUpdateEntry_stmt(t)
LockReplyRegister(t) == Guarded(t) /\ ReplyRegister_stmt(t)

\* edit_tracker.write() of the purge task returns
LockPurgeAcquire ==
    /\ purge_task = "running"
    /\ tracking
    /\ lock = None
    /\ lock' = Some(PurgeHolder)
    /\ UNCHANGED <<trackerVars, fwFields, taskVars>>

\* edit_tracker.write().purge(); the guard is dropped at the end of the
\* statement, then the task sleeps. Without an edit tracker the turn of the
\* loop only sleeps. The clock is followed while purge runs, as far as
\* max_duration after the start (the entries of the first instant expire)
LockPurgeCycle ==
    /\ purge_task = "running"
    /\ IF tracking
       THEN /\ lock = Some(PurgeHolder)
            /\ lock' = None
            /\ \E ts \in Readings(Len(cache), now, MaxDuration) :
                /\ cache' = purge(cache, ts)
                /\ now' = ClockAfter(ts, now)
       ELSE UNCHANGED <<lock, cache, now>>
    /\ purge_task' = "sleeping"
    /\ UNCHANGED <<op, prev, ret, nops, user_data, user_data_setup, bot_id,
                   tracking, platform, setup_calls, start_pc, taskVars>>

LockInit ==
    /\ cache = <<>>
    /\ now = 0
    /\ op = [name |-> "init"]
    /\ prev = <<>>
    /\ ret = None
    /\ nops = 0
    /\ tracking \in BOOLEAN
    /\ FrameworkNew
    /\ Started

\* the steps of task t that need no lock, up to the return of
\* dispatch_message or of the delete call (what follows takes no lock)
LockTaskRun(t) ==
    \/ InvokeCommand(t)
    \/ DispatchNoCommand(t)
    \/ ReplyEdit(t)
    \/ ReplySend(t)
    \/ MessageDeleteResponse(t)

\* the statements of task t that run under a guard
LockTaskStatement(t) ==
    \/ LockMessageUpdateProcess(t)
    \/ LockMessageDeleteFind(t)
    \/ LockReplyFind(t)
    \/ LockReplyUpdateEntry(t)
    \/ LockReplyRegister(t)

LockNext ==
    \/ \E t \in Tasks :
        \/ LockDeliver(t)
        \/ LockAcquire(t)
        \/ LockTaskStatement(t)
        \/ LockTaskRun(t)
    \/ PurgeTaskPoll
    \/ LockPurgeAcquire
    \/ LockPurgeCycle
    \/ PurgeTaskWake

LockSpec == LockInit /\ [][LockNext]_vars

\* scheduling: a statement that holds the guard runs to its end (it has no
\* await), and a write() that can be granted again and again is granted
\* (parking_lot's fair RwLock). Nothing is assumed about the awaits
FairLockSpec ==
    /\ LockSpec
    /\ \A t \in Tasks :
        /\ WF_vars(LockTaskStatement(t))
        /\ SF_vars(LockAcquire(t))
    /\ SF_vars(LockPurgeAcquire)
    /\ WF_vars(LockPurgeCycle)

\* task t is suspended at an await or has nothing to run: before an event,
\* at command dispatch, at a platform call (edit, send, delete), at the
\* error callback or at the listener
Suspended(t) ==
    pc[t] \in {"idle", "message", "update_dispatch", "reply_edit", "reply_send",
               "delete_response", "message_result", "update_result", "listener"}

\* task t has called write() on the edit tracker and the call has not
\* returned
LockRequested(t) == TakesLock(t) /\ lock # Some(LockHolder(t))

\* the purge task has called write() and the call has not returned
PurgeLockRequested ==
    purge_task = "running" /\ tracking /\ lock # Some(PurgeHolder)

\* C21: no task holds the edit tracker's lock while it is suspended at a
\* network call, at command dispatch or at a sleep (the holder is always
\* inside the statement that took the lock), and every request for the lock,
\* of an event task, of a reply or of the purge task, is eventually granted:
\* no request stays pending for ever (a pending write() ends only by being
\* granted).
C21_LockNeverHeldAcrossAwait ==
    /\ [](\A t \in Tasks : Suspended(t) => lock # Some(LockHolder(t)))
    /\ [](purge_task \in {"sleeping", "ready"} => lock # Some(PurgeHolder))
    /\ \A t \in Tasks : []<>~LockRequested(t)
    /\ []<>~PurgeLockRequested

\* a reply holds the guard to register the response it sent while another
\* event task and the purge task both wait for the lock
C21_Witness ==
    \E t, u \in Tasks :
        /\ t # u
        /\ pc[t] = "reply_register"
        /\ lock = Some(LockHolder(t))
        /\ calls[t] # <<>>
        /\ TakesLock(u)
        /\ purge_task = "running"

\* ---- EditSpec: several MessageUpdate tasks for one trigger, each replying
\* through send_prefix_reply, after another task's reply registered the
\* response; the platform applies the edits in the order the calls reach it ----

\* the trigger is edited: a MessageUpdate event for message 1 arrives
EditDeliver(t) == DeliverEvent(t, UpdateEvent(1, now))

EditNext ==
    \/ \E t \in Tasks :
        \/ EditDeliver(t)
        \/ MessageUpdateProcess(t)
        \/ InvokeCommand(t)
        \/ DispatchNoCommand(t)
        \/ ReplyFind(t)
        \/ ReplyEdit(t)
        \/ ReplyUpdateEntry(t)
        \/ ReplySend(t)
        \/ ReplyRegister(t)
        \/ MessageUpdateResult(t)
    \/ OtherRegister

EditSpec == HandlerInit /\ [][EditNext]_vars

\* the reply of task t for trigger id has finished, and it edited the bot
\* response on the platform successfully
FinishedEdit(t, id) ==
    /\ ev[t].kind = "MessageUpdate"
    /\ ev[t].event.id = id
    /\ pc[t] \in {"update_result", "listener"}
    /\ calls[t] # <<>>
    /\ calls[t][Len(calls[t])].call = "edit"
    /\ calls[t][Len(calls[t])].ok

\* C22: once every one of several concurrent reply calls for the same
\* tracked trigger has finished, each having edited the bot response on the
\* platform successfully, the response the cache stores for the trigger is
\* the result of the edit the platform applied last.
C22_CacheHoldsLastEdit ==
    \A id \in MsgIds :
        ((\A t \in Tasks : FinishedEdit(t, id)) /\ find(cache, id) # 0)
            => find_bot_response(cache, id) = platform

\* ---- the failure of the platform call inside send_prefix_reply
\* (HandlerSpec) ----

\* the platform call task t awaited last
LastCall(t) == calls[t][Len(calls[t])]

\* in this step the platform call of task t's reply (send or edit) fails
ReplyCallFails(t) ==
    /\ pc[t] \in {"reply_send", "reply_edit"}
    /\ Len(calls'[t]) = Len(calls[t]) + 1
    /\ ~calls'[t][Len(calls'[t])].ok

\* C23: when the platform call inside send_prefix_reply fails, the call
\* returns that error at once and the cache is left as it was: the reply
\* reaches its registration only after a successful send and its overwrite
\* only after a successful edit, so a failed send records no entry and a
\* failed edit leaves the stored response unchanged.
C23_FailedCallLeavesCache ==
    /\ [][\A t \in HandlerTasks :
            ReplyCallFails(t) =>
                /\ cache' = cache
                /\ pc'[t] = ResultPc(t)
                /\ res'[t] = ReplyFailed(local[t].ctx,
                                IF pc[t] = "reply_edit" THEN "edit failed"
                                                        ELSE "send failed")]_vars
    /\ [](\A t \in HandlerTasks :
            /\ pc[t] = "reply_register" =>
                (calls[t] # <<>> /\ LastCall(t).call = "send_message" /\ LastCall(t).ok)
            /\ pc[t] = "reply_update" =>
                (calls[t] # <<>> /\ LastCall(t).call = "edit" /\ LastCall(t).ok))

\* the edit of a cached response failed: the reply returned the error to the
\* command's dispatch and the entry still holds the response as it was
C23_Witness ==
    \E t \in HandlerTasks :
        /\ calls[t] # <<>>
        /\ LastCall(t).call = "edit"
        /\ ~LastCall(t).ok
        /\ pc[t] = ResultPc(t)
        /\ res[t].tag = "Err"
        /\ res[t].err = "edit failed"
        /\ find(cache, 1) # 0
        /\ find_bot_response(cache, 1) = Some(NewResponse(OtherTask, cache[find(cache, 1)][1]))
====
